---------------------------- MODULE Spec2Model ----------------------------
(***************************************************************************)
(* Key-value separated LSM tree (BlobTree): the encoded-entry codec, the   *)
(* index-tree facade, the blob tree's insert / remove / get / range and    *)
(* the flush pipeline that separates large values into the value log.      *)
(*                                                                         *)
(* The LSM index engine (crate::Tree) and the value log (value_log crate)  *)
(* are collaborators whose code is not part of the modelled sources; they  *)
(* are modelled from their documented contracts.                           *)
(***************************************************************************)
EXTENDS Integers, Sequences, FiniteSets, TLC

(***************************************************************************)
(* Bounds of the model.                                                    *)
(***************************************************************************)
\* user keys are 1..MaxKey, ordered as integers (UserKey is totally ordered)
MaxKey == 2
\* caller-supplied sequence numbers are 0..MaxSeqno
MaxSeqno == 1
\* at most MaxOps insert / remove calls are issued
MaxOps == 2
\* at most MaxFlushes memtable rotations happen
MaxFlushes == 2
\* the codec specification draws inline payloads of length 0..MaxLen
MaxLen == 3

(***************************************************************************)
(* Program constants.                                                      *)
(***************************************************************************)
\* mod.rs:115  `if size >= 4_096`
SEP_THRESHOLD == 4096

Keys == 1..MaxKey
SeqNos == 0..MaxSeqno

\* the flusher threads; Spec runs the flush pipeline on thread 1 only
Flushers == {1, 2}
SerialFlushers == {1}

(***************************************************************************)
(* Byte strings (Vec<u8>, Arc<[u8]>, Cursor).  A byte string is held as    *)
(* its run-length encoding: a sequence of runs <<byte, count>> with every  *)
(* count positive and neighbouring runs of different bytes, so that equal  *)
(* byte strings have equal encodings.                                      *)
(***************************************************************************)
\* the byte string of n bytes, every byte b
Fill(n, b) == IF n = 0 THEN <<>> ELSE <<(<<b, n>>)>>

\* the number of bytes
RECURSIVE BLen(_)
BLen(x) == IF x = <<>> THEN 0 ELSE x[1][2] + BLen(Tail(x))

\* concatenation
BCat(x, y) ==
    IF x = <<>> THEN y
    ELSE IF y = <<>> THEN x
    ELSE IF x[Len(x)][1] = y[1][1]
    THEN SubSeq(x, 1, Len(x) - 1) \o <<(<<y[1][1], x[Len(x)][2] + y[1][2]>>)>> \o Tail(y)
    ELSE x \o y

\* the byte string of an explicit sequence of bytes
RECURSIVE Bytes(_)
Bytes(q) == IF q = <<>> THEN <<>> ELSE BCat(Fill(1, q[1]), Bytes(Tail(q)))

\* the first n bytes (all of x when it is shorter)
RECURSIVE BTake(_, _)
BTake(x, n) ==
    IF n <= 0 \/ x = <<>> THEN <<>>
    ELSE IF x[1][2] >= n THEN Fill(n, x[1][1])
    ELSE <<x[1]>> \o BTake(Tail(x), n - x[1][2])

\* x without its first n bytes
RECURSIVE BDrop(_, _)
BDrop(x, n) ==
    IF n <= 0 \/ x = <<>> THEN x
    ELSE IF x[1][2] > n THEN <<(<<x[1][1], x[1][2] - n>>)>> \o Tail(x)
    ELSE BDrop(Tail(x), n - x[1][2])

\* the i-th byte, 1 <= i <= BLen(x)
RECURSIVE BAt(_, _)
BAt(x, i) == IF i <= x[1][2] THEN x[1][1] ELSE BAt(Tail(x), i - x[1][2])

(***************************************************************************)
(* byteorder::BigEndian.  Model integers are below 2^31, so the four high  *)
(* bytes of a u64 written by the model are zero; a u64 read back whose     *)
(* value is 2^31 or more is reported as HugeU64.                           *)
(***************************************************************************)
HugeU64 == -1

\* write_u64::<BigEndian>
WriteU64(n) ==
    Bytes(<<0, 0, 0, 0,
            (n \div 16777216) % 256, (n \div 65536) % 256, (n \div 256) % 256, n % 256>>)

\* read_u64::<BigEndian> of the 8 bytes of x that follow its first `at` bytes
ReadU64(x, at) ==
    IF \/ \E j \in 1..4 : BAt(x, at + j) # 0
       \/ BAt(x, at + 5) >= 128
    THEN HugeU64
    ELSE BAt(x, at + 5) * 16777216 + BAt(x, at + 6) * 65536
         + BAt(x, at + 7) * 256 + BAt(x, at + 8)

(***************************************************************************)
(* Encoded-entry codec (blob_tree/index.rs).                               *)
(***************************************************************************)
NoHandle == [segment_id |-> 0, offset |-> 0]

Inline(bytes) == [kind |-> "Inline", bytes |-> bytes, handle |-> NoHandle]
Indirect(h) == [kind |-> "Indirect", bytes |-> <<>>, handle |-> h]
\* Err(_) returned by deserialize
DecodeErr == [kind |-> "Err", bytes |-> <<>>, handle |-> NoHandle]
\* panic!("Invalid tag")
DecodePanic == [kind |-> "Panic", bytes |-> <<>>, handle |-> NoHandle]

\* impl Serializable for ValueHandle: offset first, then segment_id, no tag
SerializeHandle(h) == BCat(WriteU64(h.offset), WriteU64(h.segment_id))

\* impl Deserializable for ValueHandle, reading after the first `at` bytes
M_DeserializeHandle_Swapped(x, at) ==
    IF BLen(x) < at + 16
    THEN DecodeErr
    ELSE Indirect([segment_id |-> ReadU64(x, at), offset |-> ReadU64(x, at + 8)])

DeserializeHandle(x, at) ==
    IF BLen(x) < at + 16
    THEN DecodeErr
    ELSE Indirect([segment_id |-> ReadU64(x, at + 8), offset |-> ReadU64(x, at)])

\* impl Serializable for MaybeInlineValue
Serialize(item) ==
    IF item.kind = "Inline"
    THEN BCat(Fill(1, 0), BCat(WriteU64(BLen(item.bytes)), item.bytes))
    ELSE BCat(Fill(1, 1), SerializeHandle(item.handle))

\* impl Deserializable for MaybeInlineValue; trailing bytes are left unread
Deserialize(x) ==
    IF BLen(x) < 1
    THEN DecodeErr
    ELSE IF BAt(x, 1) = 0
    THEN IF BLen(x) < 9
         THEN DecodeErr
         ELSE LET len == ReadU64(x, 1)
              IN  IF len = HugeU64 \/ len > BLen(x) - 9
                  THEN DecodeErr
                  ELSE Inline(BTake(BDrop(x, 9), len))
    ELSE IF BAt(x, 1) = 1
    THEN DeserializeHandle(x, 1)
    ELSE DecodePanic

\* the user values the clients write: empty, small, two values whose 17
\* bytes are those of an encoded handle (one naming value-log segment 9,
\* which never exists, one naming segment 0 at offset 0), one byte below
\* the separation threshold, exactly at it
UserValues ==
    {Fill(0, 0), Fill(1, 120),
     Serialize(Indirect([segment_id |-> 9, offset |-> 0])),
     Serialize(Indirect([segment_id |-> 0, offset |-> 0])),
     Fill(SEP_THRESHOLD - 1, 110), Fill(SEP_THRESHOLD, 110)}

(***************************************************************************)
(* State.                                                                  *)
(***************************************************************************)
VARIABLES
    \* index engine: the active memtable, a set of entries
    \* [user_key, seqno, value_type, value] (value = the raw stored bytes)
    active,
    \* index engine: rotated memtables not yet replaced by a segment,
    \* a set of [id, items]
    sealed,
    \* index engine: the registered index segments, a set of [id, items]
    \* with items the sequence of entries handed to the segment writer
    segments,
    \* index engine: the next index segment id
    next_segment_id,
    \* value log: the registered value-log segments, a set of [id, items]
    \* with items a sequence of [key, offset, value]
    blobs,
    \* value log: the next value-log segment id
    next_blob_id,
    \* position of each thread inside flush_active_memtable
    pc,
    \* locals of each thread inside flush_active_memtable:
    \* [segment_id, i, segment_writer, blob_writer]
    fl,
    \* what each thread's last flush_active_memtable call returned
    ret,
    \* whether each thread's last flush_active_memtable call rotated a memtable
    rotated,
    \* every insert / remove call issued so far:
    \* [user_key, seqno, value_type, value] (value = the caller's bytes)
    written,
    \* the codec specification's entry, its wire form, its decoding, its step
    codec_in, codec_wire, codec_out, codec_pc

treeVars == <<active, sealed, segments, next_segment_id, blobs, next_blob_id>>
flushVars == <<pc, fl, ret, rotated>>
codecVars == <<codec_in, codec_wire, codec_out, codec_pc>>
vars == <<treeVars, flushVars, written, codecVars>>

NoWriter == [segment_id |-> 0, offset |-> 0, items |-> <<>>]
NoLocals == [segment_id |-> 0, i |-> 0, segment_writer |-> <<>>, blob_writer |-> NoWriter]

\* BlobTree::open on an empty directory
InitTree ==
    /\ active = {}
    /\ sealed = {}
    /\ segments = {}
    /\ next_segment_id = 0
    /\ blobs = {}
    /\ next_blob_id = 0
    /\ pc = [t \in Flushers |-> "idle"]
    /\ fl = [t \in Flushers |-> NoLocals]
    /\ ret = [t \in Flushers |-> "-"]
    /\ rotated = [t \in Flushers |-> FALSE]
    /\ written = {}

CodecIdle ==
    /\ codec_in = Inline(<<>>)
    /\ codec_wire = <<>>
    /\ codec_out = Inline(<<>>)
    /\ codec_pc = "idle"

Init == InitTree /\ CodecIdle

(***************************************************************************)
(* Index engine (crate::Tree), from its contract.                          *)
(***************************************************************************)
\* InternalKey order: user key ascending, seqno descending
KeyBefore(a, b) ==
    \/ a.user_key < b.user_key
    \/ a.user_key = b.user_key /\ a.seqno > b.seqno

\* a memtable's entries in InternalKey order
RECURSIVE SortedItems(_)
SortedItems(S) ==
    IF S = {}
    THEN <<>>
    ELSE LET first == CHOOSE e \in S : \A o \in S \ {e} : KeyBefore(e, o)
         IN  <<first>> \o SortedItems(S \ {first})

SeqToSet(q) == {q[j] : j \in 1..Len(q)}

\* every version readable from the index: the active memtable, the sealed
\* memtables and the registered segments
Visible ==
    active
    \cup UNION {m.items : m \in sealed}
    \cup UNION {SeqToSet(g.items) : g \in segments}

Versions(k) == {e \in Visible : e.user_key = k}

\* the version of k with the highest seqno (Versions(k) is not empty)
Latest(k) == CHOOSE e \in Versions(k) : \A o \in Versions(k) : o.seqno <= e.seqno

\* Tree::get: the raw bytes of the latest version, None if the key is absent
\* or its latest version is a tombstone
IndexGet(k) ==
    IF Versions(k) = {} \/ Latest(k).value_type = "Tombstone"
    THEN [kind |-> "None", bytes |-> <<>>]
    ELSE [kind |-> "Some", bytes |-> Latest(k).value]

\* Tree::insert
IndexInsert(k, raw, s) ==
    active' = active \cup {[user_key |-> k, seqno |-> s, value_type |-> "Value", value |-> raw]}

\* Tree::remove: a tombstone with an empty payload
IndexRemove(k, s) ==
    active' = active \cup {[user_key |-> k, seqno |-> s, value_type |-> "Tombstone", value |-> <<>>]}

(***************************************************************************)
(* Value log (value_log crate), from its contract.                         *)
(***************************************************************************)
\* ValueLog::get: Err for an unregistered segment, None when the segment
\* holds nothing at the offset
BlobsGet(h) ==
    IF \A b \in blobs : b.id # h.segment_id
    THEN [kind |-> "Err", bytes |-> <<>>]
    ELSE LET b == CHOOSE x \in blobs : x.id = h.segment_id
             hit == {j \in 1..Len(b.items) : b.items[j].offset = h.offset}
         IN  IF hit = {}
             THEN [kind |-> "None", bytes |-> <<>>]
             ELSE [kind |-> "Some", bytes |-> b.items[CHOOSE j \in hit : TRUE].value]

\* SegmentWriter::write of the value log: appends at the current offset
BlobWriterWrite(w, k, v) ==
    [w EXCEPT !.items = Append(@, [key |-> k, offset |-> w.offset, value |-> v]),
              !.offset = @ + BLen(v)]

(***************************************************************************)
(* Index-tree facade (blob_tree/index.rs).                                 *)
(***************************************************************************)
\* IndexTree::get_internal: decodes the raw bytes; a decode error panics
\* through .expect("should deserialize")
GetInternal(k) ==
    LET item == IndexGet(k)
    IN  IF item.kind = "None"
        THEN [kind |-> "None", bytes |-> <<>>, handle |-> NoHandle]
        ELSE LET d == Deserialize(item.bytes)
             IN  IF d.kind = "Err" THEN DecodePanic ELSE d

\* impl value_log::ExternalIndex for IndexTree
ExternalGet(k) ==
    LET item == GetInternal(k)
    IN  IF item.kind = "Panic"
        THEN [kind |-> "Panic", handle |-> NoHandle]
        ELSE IF item.kind = "None" \/ item.kind = "Inline"
        THEN [kind |-> "None", handle |-> NoHandle]
        ELSE [kind |-> "Some", handle |-> item.handle]

(***************************************************************************)
(* Blob tree, public operations (blob_tree/mod.rs).                        *)
(***************************************************************************)
\* BlobTree::get
Get(k) ==
    LET value == GetInternal(k)
    IN  IF value.kind = "Panic"
        THEN [kind |-> "Panic", bytes |-> <<>>]
        ELSE IF value.kind = "None"
        THEN [kind |-> "None", bytes |-> <<>>]
        ELSE IF value.kind = "Inline"
        THEN [kind |-> "Some", bytes |-> value.bytes]
        ELSE BlobsGet(value.handle)

\* a mapper that reports a value the value log does not hold as an error
M_VlogMapperMap_NoneAsErr(k, raw) ==
    LET item == Deserialize(raw)
    IN  IF item.kind = "Err" \/ item.kind = "Panic"
        THEN <<[kind |-> "Panic", key |-> k, bytes |-> <<>>]>>
        ELSE IF item.kind = "Inline"
        THEN <<[kind |-> "Ok", key |-> k, bytes |-> item.bytes]>>
        ELSE LET got == BlobsGet(item.handle)
             IN  IF got.kind = "Some"
                 THEN <<[kind |-> "Ok", key |-> k, bytes |-> got.bytes]>>
                 ELSE <<[kind |-> "Err", key |-> k, bytes |-> <<>>]>>

\* VlogMapper::map on an Ok((key, value)) item: <<>> when the item is skipped,
\* else the one item yielded
VlogMapperMap(k, raw) ==
    LET item == Deserialize(raw)
    IN  IF item.kind = "Err" \/ item.kind = "Panic"
        THEN <<[kind |-> "Panic", key |-> k, bytes |-> <<>>]>>
        ELSE IF item.kind = "Inline"
        THEN <<[kind |-> "Ok", key |-> k, bytes |-> item.bytes]>>
        ELSE LET got == BlobsGet(item.handle)
             IN  IF got.kind = "Some"
                 THEN <<[kind |-> "Ok", key |-> k, bytes |-> got.bytes]>>
                 ELSE IF got.kind = "None"
                 THEN <<>>
                 ELSE <<[kind |-> "Err", key |-> k, bytes |-> <<>>]>>

\* the items the index iterator hands to the mapper
OkItem(k, raw) == [kind |-> "Ok", key |-> k, bytes |-> raw]
ErrItem(k) == [kind |-> "Err", key |-> k, bytes |-> <<>>]

\* VlogMapper::map: an Err item is forwarded, an Ok item is decoded
VlogMapperMapItem(item) ==
    IF item.kind = "Err"
    THEN <<item>>
    ELSE VlogMapperMap(item.key, item.bytes)

\* BlobTree::range over lo..=hi: the index iterator yields the live keys in
\* ascending order, each with the raw bytes of its latest version, and the
\* mapper is applied to each item; the scan ends at an item that panics
RECURSIVE RangeFrom(_, _)
RangeFrom(lo, hi) ==
    IF lo > hi
    THEN <<>>
    ELSE LET item == IndexGet(lo)
             out == IF item.kind = "None" THEN <<>> ELSE VlogMapperMapItem(OkItem(lo, item.bytes))
         IN  IF out # <<>> /\ out[1].kind = "Panic"
             THEN out
             ELSE out \o RangeFrom(lo + 1, hi)

Range(lo, hi) == RangeFrom(lo, hi)

\* insert that stores the user bytes as they are, without the Inline framing
M_Insert_Unwrapped(k, v, s) ==
    /\ Cardinality(written) < MaxOps
    /\ \A w \in written : ~(w.user_key = k /\ w.seqno = s)
    /\ IndexInsert(k, v, s)
    /\ written' = written \cup {[user_key |-> k, seqno |-> s, value_type |-> "Value", value |-> v]}
    /\ UNCHANGED <<sealed, segments, next_segment_id, blobs, next_blob_id>>
    /\ UNCHANGED <<flushVars, codecVars>>

\* insert that sends the value to the value log at once
M_Insert_WritesBlob(k, v, s) ==
    /\ Cardinality(written) < MaxOps
    /\ \A w \in written : ~(w.user_key = k /\ w.seqno = s)
    /\ IndexInsert(k, Serialize(Inline(v)), s)
    /\ written' = written \cup {[user_key |-> k, seqno |-> s, value_type |-> "Value", value |-> v]}
    /\ blobs' = blobs \cup {[id |-> next_blob_id,
                             items |-> <<[key |-> k, offset |-> 0, value |-> v]>>]}
    /\ UNCHANGED <<sealed, segments, next_segment_id, next_blob_id>>
    /\ UNCHANGED <<flushVars, codecVars>>

\* BlobTree::insert: always writes an inline entry
Insert(k, v, s) ==
    /\ Cardinality(written) < MaxOps
    /\ \A w \in written : ~(w.user_key = k /\ w.seqno = s)
    /\ IndexInsert(k, Serialize(Inline(v)), s)
    /\ written' = written \cup {[user_key |-> k, seqno |-> s, value_type |-> "Value", value |-> v]}
    /\ UNCHANGED <<sealed, segments, next_segment_id, blobs, next_blob_id>>
    /\ UNCHANGED <<flushVars, codecVars>>

\* BlobTree::remove
Remove(k, s) ==
    /\ Cardinality(written) < MaxOps
    /\ \A w \in written : ~(w.user_key = k /\ w.seqno = s)
    /\ IndexRemove(k, s)
    /\ written' = written \cup {[user_key |-> k, seqno |-> s, value_type |-> "Tombstone", value |-> <<>>]}
    /\ UNCHANGED <<sealed, segments, next_segment_id, blobs, next_blob_id>>
    /\ UNCHANGED <<flushVars, codecVars>>

(***************************************************************************)
(* Flush pipeline (BlobTree::flush_active_memtable).                       *)
(***************************************************************************)
\* the memtable thread t is flushing, in iteration order
Yanked(t) ==
    LET m == CHOOSE x \in sealed : x.id = fl[t].segment_id
    IN  SortedItems(m.items)

\* mod.rs:80-82: rotate_memtable returned None
FlushNone(t) ==
    /\ pc[t] = "idle"
    /\ active = {}
    /\ ret' = [ret EXCEPT ![t] = "None"]
    /\ rotated' = [rotated EXCEPT ![t] = FALSE]
    /\ UNCHANGED <<treeVars, pc, fl, written, codecVars>>

\* a rotation that seals a copy and leaves the active memtable in place
M_FlushRotate_KeepsActive(t) ==
    /\ pc[t] = "idle"
    /\ active # {}
    /\ next_segment_id < MaxFlushes
    /\ sealed' = sealed \cup {[id |-> next_segment_id, items |-> active]}
    /\ active' = active
    /\ next_segment_id' = next_segment_id + 1
    /\ fl' = [fl EXCEPT ![t] = [NoLocals EXCEPT !.segment_id = next_segment_id]]
    /\ pc' = [pc EXCEPT ![t] = "open"]
    /\ ret' = [ret EXCEPT ![t] = "-"]
    /\ rotated' = [rotated EXCEPT ![t] = TRUE]
    /\ UNCHANGED <<segments, blobs, next_blob_id, written, codecVars>>

\* mod.rs:80: rotate_memtable seals the active memtable under a fresh segment id
FlushRotate(t) ==
    /\ pc[t] = "idle"
    /\ active # {}
    /\ next_segment_id < MaxFlushes
    /\ sealed' = sealed \cup {[id |-> next_segment_id, items |-> active]}
    /\ active' = {}
    /\ next_segment_id' = next_segment_id + 1
    /\ fl' = [fl EXCEPT ![t] = [NoLocals EXCEPT !.segment_id = next_segment_id]]
    /\ pc' = [pc EXCEPT ![t] = "open"]
    /\ ret' = [ret EXCEPT ![t] = "-"]
    /\ rotated' = [rotated EXCEPT ![t] = TRUE]
    /\ UNCHANGED <<segments, blobs, next_blob_id, written, codecVars>>

\* mod.rs:91-101: SegmentWriter::new, blobs.get_writer, blob_writer.segment_id
FlushOpenWriters(t) ==
    /\ pc[t] = "open"
    /\ fl' = [fl EXCEPT ![t].i = 1,
                        ![t].segment_writer = <<>>,
                        ![t].blob_writer = [segment_id |-> next_blob_id, offset |-> 0, items |-> <<>>]]
    /\ next_blob_id' = next_blob_id + 1
    /\ pc' = [pc EXCEPT ![t] = "loop"]
    /\ UNCHANGED <<active, sealed, segments, next_segment_id, blobs, ret, rotated, written, codecVars>>

\* mod.rs:113-136: the size gate
IsSeparated(size) == size >= SEP_THRESHOLD

\* a separated entry written under seqno 0 instead of the entry's own seqno
M_SeparatedEntry_NoSeqno(key, handle) ==
    [user_key |-> key.user_key, seqno |-> 0, value_type |-> "Value",
     value |-> SerializeHandle(handle)]

\* mod.rs:116-133: the entry written to the index segment for a separated
\* value: the handle's own serialization, as a Value
SeparatedEntry(key, handle) ==
    [user_key |-> key.user_key, seqno |-> key.seqno, value_type |-> "Value",
     value |-> SerializeHandle(handle)]

\* mod.rs:135: Value::from((key, value)) with the decoded inline bytes
InlineEntry(key, value) ==
    [user_key |-> key.user_key, seqno |-> key.seqno, value_type |-> key.value_type,
     value |-> value]

\* mod.rs:103-137: one iteration of the loop over the yanked memtable
FlushEntry(t) ==
    /\ pc[t] = "loop"
    /\ fl[t].i <= Len(Yanked(t))
    /\ LET entry == Yanked(t)[fl[t].i]
           value == Deserialize(entry.value)
       IN  IF value.kind # "Inline"
           THEN \* .expect("oops") or panic!("values are initially always inlined")
                /\ pc' = [pc EXCEPT ![t] = "panicked"]
                /\ UNCHANGED fl
           ELSE /\ pc' = pc
                /\ IF IsSeparated(BLen(value.bytes))
                   THEN LET value_handle == [offset |-> fl[t].blob_writer.offset,
                                             segment_id |-> fl[t].blob_writer.segment_id]
                        IN  fl' = [fl EXCEPT
                                ![t].blob_writer = BlobWriterWrite(@, entry.user_key, value.bytes),
                                ![t].segment_writer = Append(@, SeparatedEntry(entry, value_handle)),
                                ![t].i = @ + 1]
                   ELSE fl' = [fl EXCEPT
                                ![t].segment_writer = Append(@, InlineEntry(entry, value.bytes)),
                                ![t].i = @ + 1]
    /\ UNCHANGED <<treeVars, ret, rotated, written, codecVars>>

\* mod.rs:139: blobs.register(blob_writer), once the loop is over
FlushRegister(t) ==
    /\ pc[t] = "loop"
    /\ fl[t].i > Len(Yanked(t))
    /\ blobs' = blobs \cup {[id |-> fl[t].blob_writer.segment_id, items |-> fl[t].blob_writer.items]}
    /\ pc' = [pc EXCEPT ![t] = "consume"]
    /\ UNCHANGED <<active, sealed, segments, next_segment_id, next_blob_id>>
    /\ UNCHANGED <<fl, ret, rotated, written, codecVars>>

\* mod.rs:143: the value returned after the commit
FlushReturnValue == "None"

\* mod.rs:140-143: segment_writer.finish, consume_writer (the segment becomes
\* readable and replaces the sealed memtable), return
FlushConsume(t) ==
    /\ pc[t] = "consume"
    /\ segments' = segments \cup {[id |-> fl[t].segment_id, items |-> fl[t].segment_writer]}
    /\ sealed' = {m \in sealed : m.id # fl[t].segment_id}
    /\ pc' = [pc EXCEPT ![t] = "idle"]
    /\ fl' = [fl EXCEPT ![t] = NoLocals]
    /\ ret' = [ret EXCEPT ![t] = FlushReturnValue]
    /\ UNCHANGED <<active, next_segment_id, blobs, next_blob_id, rotated, written, codecVars>>

Next ==
    \/ \E k \in Keys, v \in UserValues, s \in SeqNos : Insert(k, v, s)
    \/ \E k \in Keys, s \in SeqNos : Remove(k, s)
    \/ \E t \in SerialFlushers : FlushNone(t)
    \/ \E t \in SerialFlushers : FlushRotate(t)
    \/ \E t \in SerialFlushers : FlushOpenWriters(t)
    \/ \E t \in SerialFlushers : FlushEntry(t)
    \/ \E t \in SerialFlushers : FlushRegister(t)
    \/ \E t \in SerialFlushers : FlushConsume(t)

Spec == Init /\ [][Next]_vars

\* several threads call flush_active_memtable concurrently with the writers
NextConc ==
    \/ \E k \in Keys, v \in UserValues, s \in SeqNos : Insert(k, v, s)
    \/ \E k \in Keys, s \in SeqNos : Remove(k, s)
    \/ \E t \in Flushers : FlushNone(t)
    \/ \E t \in Flushers : FlushRotate(t)
    \/ \E t \in Flushers : FlushOpenWriters(t)
    \/ \E t \in Flushers : FlushEntry(t)
    \/ \E t \in Flushers : FlushRegister(t)
    \/ \E t \in Flushers : FlushConsume(t)

SpecConc == Init /\ [][NextConc]_vars

(***************************************************************************)
(* The codec on its own: an entry is drawn, serialized, deserialized.      *)
(***************************************************************************)
CodecBytes == {0, 1, 255}
HandleNumbers == {0, 1, 255, 256, 65537, 2147483647}

RECURSIVE SeqsUpTo(_)
SeqsUpTo(n) ==
    IF n = 0
    THEN {<<>>}
    ELSE SeqsUpTo(n - 1) \cup {Append(q, b) : q \in {r \in SeqsUpTo(n - 1) : Len(r) = n - 1}, b \in CodecBytes}

CodecEntries ==
    {Inline(Bytes(q)) : q \in SeqsUpTo(MaxLen)}
    \cup {Indirect([segment_id |-> g, offset |-> o]) : g \in HandleNumbers, o \in HandleNumbers}

InitCodec ==
    /\ InitTree
    /\ codec_in \in CodecEntries
    /\ codec_wire = <<>>
    /\ codec_out = Inline(<<>>)
    /\ codec_pc = "encode"

\* item.serialize(&mut value)
CodecEncode ==
    /\ codec_pc = "encode"
    /\ codec_wire' = Serialize(codec_in)
    /\ codec_pc' = "decode"
    /\ UNCHANGED <<treeVars, flushVars, written, codec_in, codec_out>>

\* MaybeInlineValue::deserialize(&mut cursor)
CodecDecode ==
    /\ codec_pc = "decode"
    /\ codec_out' = Deserialize(codec_wire)
    /\ codec_pc' = "done"
    /\ UNCHANGED <<treeVars, flushVars, written, codec_in, codec_wire>>

NextCodec == CodecEncode \/ CodecDecode

SpecCodec == InitCodec /\ [][NextCodec]_vars

(***************************************************************************)
(* What the calls issued so far require of the reads.                      *)
(***************************************************************************)
SomeBytes(v) == [kind |-> "Some", bytes |-> v]
NoBytes == [kind |-> "None", bytes |-> <<>>]

WrittenOf(k) == {w \in written : w.user_key = k}

\* the call on k with the highest seqno (WrittenOf(k) is not empty)
LatestWritten(k) == CHOOSE w \in WrittenOf(k) : \A o \in WrittenOf(k) : o.seqno <= w.seqno

LatestIsValue(k) == WrittenOf(k) # {} /\ LatestWritten(k).value_type = "Value"
LatestIsTombstone(k) == WrittenOf(k) # {} /\ LatestWritten(k).value_type = "Tombstone"

\* the insert / remove call an index entry stems from
CallOf(e) == CHOOSE w \in written : w.user_key = e.user_key /\ w.seqno = e.seqno

\* e is an entry of a registered index segment
InSegment(e) == \E g \in segments : e \in SeqToSet(g.items)

\* e is a value entry of an index segment whose value the flush's size gate
\* sent to the value log; its raw bytes are the serialized handle
WasSeparated(e) == InSegment(e) /\ e.value_type = "Value" /\ IsSeparated(BLen(CallOf(e).value))

StoredHandle(e) == DeserializeHandle(e.value, 0).handle

Registered(id) == \E b \in blobs : b.id = id

\* C1: flush transparency: no step of flush_active_memtable changes what get
\* returns for a key whose latest call is an insert: if get(k) was Some(v)
\* before the step it is Some(v) after it, whatever the length of v.
C1_FlushTransparency ==
    [][written' = written =>
        \A k \in Keys :
            (LatestIsValue(k) /\ Get(k) = SomeBytes(LatestWritten(k).value))
                => (Get(k))' = SomeBytes(LatestWritten(k).value)]_vars

\* C2: insert/get: in every state get(k) is Some(v) for the insert(k, v, s)
\* with the highest seqno when no remove has a higher one, and None for a
\* key no call was ever issued on.
C2_InsertGet ==
    \A k \in Keys :
        /\ WrittenOf(k) = {} => Get(k) = NoBytes
        /\ LatestIsValue(k) => Get(k) = SomeBytes(LatestWritten(k).value)

\* C3: tombstone precedence: while remove(k, s) is the call on k with the
\* highest seqno, get(k) is None, and the flush that carries the tombstone
\* into an index segment goes through (it does not abort on the tombstone).
C3_TombstonePrecedence ==
    \A k \in Keys :
        LatestIsTombstone(k) =>
            /\ Get(k) = NoBytes
            /\ \A t \in Flushers :
                   ~(/\ pc[t] = "panicked"
                     /\ Yanked(t)[fl[t].i].user_key = k
                     /\ Yanked(t)[fl[t].i].value_type = "Tombstone")

\* C4: MVCC visibility: for a key with several versions, get(k) is the value
\* of the version with the highest seqno, in whatever order the calls were
\* issued and wherever a flush has put the versions.
C4_MvccVisibility ==
    \A k \in Keys :
        (Cardinality(WrittenOf(k)) >= 2 /\ LatestIsValue(k))
            => Get(k) = SomeBytes(LatestWritten(k).value)

\* C5: commit ordering: in every state (so also at every step of a running
\* flush, which is the state a crash at that step leaves behind) every entry
\* of a registered index segment that decodes to Indirect(h), and every entry
\* the flush wrote as a handle h, has h.segment_id registered with the value
\* log, and the value log returns the inserted bytes for h.
C5_CommitOrdering ==
    \A g \in segments : \A j \in 1..Len(g.items) :
        LET e == g.items[j]
            d == Deserialize(e.value)
        IN  /\ d.kind = "Indirect" => Registered(d.handle.segment_id)
            /\ WasSeparated(e) =>
                   /\ Registered(StoredHandle(e).segment_id)
                   /\ BlobsGet(StoredHandle(e)) = SomeBytes(CallOf(e).value)

\* C5 witness: a registered index segment holds an entry the flush wrote as
\* a handle.
C5_Witness ==
    \E g \in segments : \E j \in 1..Len(g.items) : WasSeparated(g.items[j])

\* C6: separation boundary: every value entry of a registered index segment
\* decodes to Indirect(h) when the inserted value has 4096 bytes or more and
\* to Inline(v) with the inserted bytes when it has fewer.
C6_SeparationBoundary ==
    \A g \in segments : \A j \in 1..Len(g.items) :
        LET e == g.items[j]
        IN  e.value_type = "Value" =>
                IF BLen(CallOf(e).value) >= SEP_THRESHOLD
                THEN Deserialize(e.value).kind = "Indirect"
                ELSE Deserialize(e.value) = Inline(CallOf(e).value)

\* the live pairs with lo <= key <= hi in ascending key order
RECURSIVE ExpectedRange(_, _)
ExpectedRange(lo, hi) ==
    IF lo > hi
    THEN <<>>
    ELSE (IF LatestIsValue(lo)
          THEN <<[kind |-> "Ok", key |-> lo, bytes |-> LatestWritten(lo).value]>>
          ELSE <<>>) \o ExpectedRange(lo + 1, hi)

\* C7: range scan result: range(lo..=hi) yields exactly the live pairs in the
\* bounds, each key once with its latest inserted value, in ascending order.
C7_RangeResult ==
    \A lo \in Keys : \A hi \in Keys : Range(lo, hi) = ExpectedRange(lo, hi)

\* C8: external-index contract: external_get(k) is Some(h) exactly when the
\* latest visible version of k is an entry the flush stored as the handle h,
\* and None when k is absent, deleted or its latest version is inline.
C8_ExternalIndex ==
    \A k \in Keys :
        IF Versions(k) # {} /\ WasSeparated(Latest(k))
        THEN ExternalGet(k) = [kind |-> "Some", handle |-> StoredHandle(Latest(k))]
        ELSE ExternalGet(k) = [kind |-> "None", handle |-> NoHandle]

\* C9: codec round trip: deserializing the serialization of an entry gives
\* the entry back, segment_id and offset in their places.
C9_RoundTrip == codec_pc = "done" => codec_out = codec_in

\* C9 witness: a handle whose segment_id and offset differ went through the
\* round trip.
C9_Witness ==
    /\ codec_pc = "done"
    /\ codec_in.kind = "Indirect"
    /\ codec_in.handle.segment_id # codec_in.handle.offset

\* C10: flush_active_memtable returns None exactly when there was no memtable
\* to rotate, and Some(()) when a memtable was rotated and committed.
C10_FlushReturn ==
    \A t \in Flushers :
        (pc[t] = "idle" /\ ret[t] # "-") => (ret[t] = "None" <=> ~rotated[t])

\* C11: dangling reference on a point read: when get_internal finds
\* Indirect(h) for k and the value log returns None for h, get(k) is an
\* error; get(k) is None only when the index has no live version of k.
C11_DanglingRead ==
    \A k \in Keys :
        /\ (GetInternal(k).kind = "Indirect" /\ BlobsGet(GetInternal(k).handle).kind = "None")
               => Get(k).kind = "Err"
        /\ Get(k).kind = "None" => IndexGet(k).kind = "None"

\* C12: decode failures are error values: for the raw bytes the index holds
\* for a live key, deserialize never panics, and when it fails get(k) is Err.
C12_DecodeErrors ==
    \A k \in Keys :
        IndexGet(k).kind = "Some" =>
            /\ Deserialize(IndexGet(k).bytes).kind # "Panic"
            /\ Deserialize(IndexGet(k).bytes).kind = "Err" => Get(k).kind = "Err"

\* thread t is between rotate_memtable and the return of its flush
Flushing(t) == pc[t] \in {"open", "loop", "consume"}

\* the internal keys of a set of entries
InternalKeys(S) == {<<e.user_key, e.seqno>> : e \in S}

\* C13: visibility across a concurrent flush: at every point where some
\* thread is inside the flush pipeline, get(k) is Some(v) for the insert with
\* the highest seqno on k, and the entries written since the rotation are in
\* the fresh memtable only, not among those the pipeline is writing.
C13_VisibleAcrossFlush ==
    \A t \in Flushers :
        Flushing(t) =>
            /\ \A k \in Keys : LatestIsValue(k) => Get(k) = SomeBytes(LatestWritten(k).value)
            /\ InternalKeys(active) \cap InternalKeys(SeqToSet(Yanked(t))) = {}
            /\ InternalKeys(active) \cap InternalKeys(SeqToSet(fl[t].segment_writer)) = {}

\* C14, as stated: exactly one flush runs at a time: no two threads are
\* inside the flush pipeline (rotation to consume_writer) together.
C14_OneFlushAtATime ==
    \A t1 \in Flushers : \A t2 \in Flushers \ {t1} : ~(Flushing(t1) /\ Flushing(t2))

\* C14, amended: only the rotation is serialized: two threads inside the
\* flush pipeline together hold different index segment ids and stream
\* memtables that share no entry.
C14_DisjointFlushes ==
    \A t1 \in Flushers : \A t2 \in Flushers \ {t1} :
        (Flushing(t1) /\ Flushing(t2)) =>
            /\ fl[t1].segment_id # fl[t2].segment_id
            /\ InternalKeys(SeqToSet(Yanked(t1))) \cap InternalKeys(SeqToSet(Yanked(t2))) = {}

\* C14 witness: both threads are in the entry loop of their flush.
C14_Witness == pc[1] = "loop" /\ pc[2] = "loop"

\* the entry the loop of flusher t stands at
CurrentEntry(t) == Yanked(t)[fl[t].i]

\* e is held by the active or a sealed memtable
InMemtable(e) == e \in active \/ \E m \in sealed : e \in m.items

\* C15: tombstones through flush: the flush of a memtable holding a tombstone
\* never dies on it; once the memtable is flushed the tombstone is an entry of
\* type Tombstone with empty payload in an index segment, and every blob of
\* the value log belongs to a value of separation size.
C15_TombstoneThroughFlush ==
    /\ \A t \in Flushers :
           pc[t] = "panicked" => CurrentEntry(t).value_type # "Tombstone"
    /\ \A w \in written :
           (w.value_type = "Tombstone" /\ ~InMemtable(w)) => InSegment(w)
    /\ \A b \in blobs : \A j \in 1..Len(b.items) : IsSeparated(BLen(b.items[j].value))

MemtableEntries == active \cup UNION {m.items : m \in sealed}

\* C16: pre-flush entries are inline: every value entry of the active or a
\* sealed memtable decodes to Inline(v), v being the bytes given to insert,
\* and the entry a flush stands at never decodes to Indirect.
C16_PreFlushInline ==
    /\ \A e \in MemtableEntries :
           e.value_type = "Value" => Deserialize(e.value) = Inline(CallOf(e).value)
    /\ \A t \in Flushers :
           (pc[t] \in {"loop", "panicked"} /\ fl[t].i <= Len(Yanked(t)))
               => Deserialize(CurrentEntry(t).value).kind # "Indirect"

\* C16 witness: a flush stands at a value entry whose user bytes are
\* themselves the encoding of an Indirect.
C16_Witness ==
    \E t \in Flushers :
        /\ pc[t] = "loop"
        /\ fl[t].i <= Len(Yanked(t))
        /\ CurrentEntry(t).value_type = "Value"
        /\ Deserialize(CallOf(CurrentEntry(t)).value).kind = "Indirect"

SameInternalKey(a, b) ==
    a.user_key = b.user_key /\ a.seqno = b.seqno /\ a.value_type = b.value_type

\* out is what the flush wrote for the user bytes v: the serialized handle
\* when v has separation size, v itself otherwise
ClassifiedByLength(out, v) ==
    IF IsSeparated(BLen(v))
    THEN BLen(out.value) = BLen(SerializeHandle(NoHandle))
    ELSE out.value = v

\* C17: flush preserves internal keys: the index-segment writer holds one
\* entry per memtable entry already streamed, in the memtable's order, with
\* the same user key, seqno and value type, each classified by its own
\* length; a committed segment is in InternalKey order and every insert or
\* remove call is held once, by a memtable or by a segment.
C17_InternalKeysPreserved ==
    /\ \A t \in Flushers :
           pc[t] \in {"loop", "consume"} =>
               /\ Len(fl[t].segment_writer) = fl[t].i - 1
               /\ pc[t] = "consume" => Len(fl[t].segment_writer) = Len(Yanked(t))
               /\ \A j \in 1..Len(fl[t].segment_writer) :
                      /\ SameInternalKey(fl[t].segment_writer[j], Yanked(t)[j])
                      /\ ClassifiedByLength(fl[t].segment_writer[j],
                                            Deserialize(Yanked(t)[j].value).bytes)
    /\ \A g \in segments :
           /\ \A i \in 1..Len(g.items) : \A j \in 1..Len(g.items) :
                  i < j => KeyBefore(g.items[i], g.items[j])
           /\ \A j \in 1..Len(g.items) :
                  /\ \E w \in written : SameInternalKey(g.items[j], w)
                  /\ ClassifiedByLength(g.items[j], CallOf(g.items[j]).value)
    /\ \A w \in written :
           Cardinality({e \in Visible : SameInternalKey(e, w)}) = 1

\* C17 witness: a committed segment holds two versions of one user key, one
\* of separation size and one below it.
C17_Witness ==
    \E g \in segments : \E i \in 1..Len(g.items) : \E j \in 1..Len(g.items) :
        /\ g.items[i].user_key = g.items[j].user_key
        /\ g.items[i].seqno # g.items[j].seqno
        /\ IsSeparated(BLen(CallOf(g.items[i]).value))
        /\ ~IsSeparated(BLen(CallOf(g.items[j]).value))

\* C18: flush failure leaves the state recoverable: a flush whose entry
\* fails to decode ends by returning the error (it is never left dead in the
\* loop), and a flush that returned an error has committed neither its
\* value-log segment nor its index segment and has left its sealed memtable
\* in place.
C18_FlushFailureRecoverable ==
    \A t \in Flushers :
        /\ (pc[t] \in {"loop", "panicked"}
            /\ fl[t].i <= Len(Yanked(t))
            /\ Deserialize(CurrentEntry(t).value).kind = "Err")
               => pc[t] = "loop"
        /\ ret[t] = "Err" =>
               /\ \A g \in segments : g.id # fl[t].segment_id
               /\ \A b \in blobs : b.id # fl[t].blob_writer.segment_id
               /\ \E m \in sealed : m.id = fl[t].segment_id

\* what the mapper is to yield for an item whose raw bytes decode to d
MapperExpected(k, d) ==
    IF d.kind = "Inline"
    THEN <<[kind |-> "Ok", key |-> k, bytes |-> d.bytes]>>
    ELSE CASE BlobsGet(d.handle).kind = "Some" ->
                  <<[kind |-> "Ok", key |-> k, bytes |-> BlobsGet(d.handle).bytes]>>
           [] BlobsGet(d.handle).kind = "None" -> <<>>
           [] OTHER -> <<ErrItem(k)>>

\* C19: range mapper item handling: for every live key whose raw bytes decode,
\* the mapper yields Ok for Inline, and for Indirect Ok / nothing / Err as the
\* value log returns Some / None / an error; an Err item is forwarded; the
\* scan yields its items by ascending key.
C19_MapperItems ==
    /\ \A k \in Keys :
           /\ VlogMapperMapItem(ErrItem(k)) = <<ErrItem(k)>>
           /\ (IndexGet(k).kind = "Some"
               /\ Deserialize(IndexGet(k).bytes).kind \in {"Inline", "Indirect"})
                  => VlogMapperMapItem(OkItem(k, IndexGet(k).bytes))
                         = MapperExpected(k, Deserialize(IndexGet(k).bytes))
    /\ LET out == Range(1, MaxKey)
       IN  \A i \in 1..Len(out) : \A j \in 1..Len(out) :
               i < j => out[i].key < out[j].key

\* C19 witness: a live key is skipped (its handle points at nothing in a
\* registered value-log segment) and the scan goes on to yield a later key.
C19_Witness ==
    \E k \in Keys :
        /\ IndexGet(k).kind = "Some"
        /\ Deserialize(IndexGet(k).bytes).kind = "Indirect"
        /\ BlobsGet(Deserialize(IndexGet(k).bytes).handle).kind = "None"
        /\ LET out == Range(1, MaxKey)
           IN  \E i \in 1..Len(out) : out[i].key > k /\ out[i].kind = "Ok"

\* C20: insert and remove leave the value log unchanged: a step that records
\* a call adds one entry to the active memtable and changes neither the
\* registered value-log segments, the index segments, the sealed memtables
\* nor any flush; the registered value-log segments change only in the
\* register step of a flush.
C20_WritesLeaveLogUnchanged ==
    [][/\ written' # written =>
              /\ blobs' = blobs /\ next_blob_id' = next_blob_id
              /\ segments' = segments /\ sealed' = sealed
              /\ flushVars' = flushVars
              /\ active \subseteq active' /\ Cardinality(active' \ active) = 1
       /\ blobs' # blobs =>
              \E t \in Flushers : pc[t] = "loop" /\ pc'[t] = "consume"]_vars

\* C20 witness: a value of separation size and a tombstone have been written
\* and the value log holds no segment.
C20_Witness ==
    /\ blobs = {}
    /\ \E e \in active : e.value_type = "Value" /\ IsSeparated(BLen(CallOf(e).value))
    /\ \E e \in active : e.value_type = "Tombstone"
=============================================================================
